---------------------------- MODULE Spec2Model ----------------------------
(***************************************************************************)
(* Explainability and intent-inference engine of the spam/phishing        *)
(* detector (src/app.py): explain_message, detect_scammer_intent and the  *)
(* /predict route that reconciles them with the classifier's verdict.     *)
(*                                                                         *)
(* A message is a sequence of characters, each character a one-character  *)
(* string, so that lowercasing, tokenisation, substring search and the    *)
(* regular expressions are computed position by position as the code      *)
(* computes them.  The two non-ASCII symbols of EXCESSIVE_SYMBOL_PATTERN   *)
(* are written "pound" and "euro".                                         *)
(***************************************************************************)
EXTENDS Integers, Sequences, FiniteSets

VARIABLES
  request,     \* the JSON body of the request / the argument of a direct call
  op,          \* which operation has run: "idle" before any
  verdict,     \* the prediction label the operation worked with
  called,      \* the collaborators /predict has invoked
  response,    \* what /predict returned: [status, body]
  explained,   \* what explain_message returned
  intents      \* what detect_scammer_intent returned

vars == <<request, op, verdict, called, response, explained, intents>>

---------------------------------------------------------------------------
(* Characters *)

LOWER == <<"a","b","c","d","e","f","g","h","i","j","k","l","m","n","o","p","q","r","s","t","u","v","w","x","y","z">>
UPPER == <<"A","B","C","D","E","F","G","H","I","J","K","L","M","N","O","P","Q","R","S","T","U","V","W","X","Y","Z">>

AsciiLower == {LOWER[i] : i \in DOMAIN LOWER}
AsciiUpper == {UPPER[i] : i \in DOMAIN UPPER}
Digits == {"0","1","2","3","4","5","6","7","8","9"}

\* the characters \w matches
WordChars == AsciiLower \cup AsciiUpper \cup Digits \cup {"_"}

\* the characters \s matches, which are also those str.strip() removes
Whitespace == {" ", "\t", "\n", "\r"}

\* the character class of EXCESSIVE_SYMBOL_PATTERN
SymbolChars == {"!", "pound", "$", "euro", "@", "#", "%", "&", "*"}

\* str.lower() on one character
LowerOf == [c \in AsciiUpper |-> LOWER[CHOOSE i \in DOMAIN UPPER : UPPER[i] = c]]

\* str.lower()
lower(s) == [i \in 1..Len(s) |-> IF s[i] \in AsciiUpper THEN LowerOf[s[i]] ELSE s[i]]

\* c.isupper() for a character of words_only
isupper(c) == c \in AsciiUpper

---------------------------------------------------------------------------
(* Keyword lists *)

SPAM_KEYWORDS ==
  << <<"f","r","e","e">>,
     <<"w","i","n">>,
     <<"w","i","n","n","e","r">>,
     <<"c","l","i","c","k">>,
     <<"o","f","f","e","r">>,
     <<"u","r","g","e","n","t">>,
     <<"l","o","t","t","e","r","y">>,
     <<"n","o","w">>,
     <<"p","r","i","z","e">>,
     <<"c","a","s","h">>,
     <<"r","e","w","a","r","d">>,
     <<"c","l","a","i","m">>,
     <<"s","e","l","e","c","t","e","d">>,
     <<"c","o","n","g","r","a","t","u","l","a","t","i","o","n","s">>,
     <<"e","x","c","l","u","s","i","v","e">>,
     <<"l","i","m","i","t","e","d">>,
     <<"g","u","a","r","a","n","t","e","e","d">>,
     <<"a","c","t">>,
     <<"e","a","r","n">>,
     <<"m","o","n","e","y">>,
     <<"b","o","n","u","s">>,
     <<"u","p","g","r","a","d","e">>,
     <<"m","e","m","b","e","r","s","h","i","p">>,
     <<"d","i","s","c","o","u","n","t">>,
     <<"c","h","e","a","p">>,
     <<"b","u","y">>,
     <<"c","a","l","l">>,
     <<"t","e","x","t">>,
     <<"s","u","b","s","c","r","i","b","e">>,
     <<"u","n","s","u","b","s","c","r","i","b","e">>,
     <<"c","r","e","d","i","t">>,
     <<"l","o","a","n">> >>

URGENCY_WORDS ==
  << <<"u","r","g","e","n","t">>,
     <<"i","m","m","e","d","i","a","t","e","l","y">>,
     <<"n","o","w">>,
     <<"t","o","d","a","y">>,
     <<"e","x","p","i","r","e","s">>,
     <<"l","i","m","i","t","e","d">>,
     <<"h","u","r","r","y">>,
     <<"a","c","t">>,
     <<"f","a","s","t">>,
     <<"q","u","i","c","k">>,
     <<"i","n","s","t","a","n","t">>,
     <<"d","e","a","d","l","i","n","e">>,
     <<"l","a","s","t"," ","c","h","a","n","c","e">>,
     <<"e","x","p","i","r","i","n","g">> >>

MONEY_THEFT_KEYWORDS ==
  << <<"w","i","n">>,
     <<"w","i","n","n","e","r">>,
     <<"p","r","i","z","e">>,
     <<"c","a","s","h">>,
     <<"m","o","n","e","y">>,
     <<"r","e","w","a","r","d">>,
     <<"c","l","a","i","m">>,
     <<"p","a","y","m","e","n","t">>,
     <<"t","r","a","n","s","f","e","r">>,
     <<"d","e","p","o","s","i","t">>,
    <<"a","c","c","o","u","n","t">>,
     <<"l","o","a","n">>,
     <<"c","r","e","d","i","t">>,
     <<"d","e","b","t">>,
     <<"f","e","e">>,
     <<"p","a","y">>,
     <<"b","i","t","c","o","i","n">>,
     <<"c","r","y","p","t","o","c","u","r","r","e","n","c","y">>,
     <<"i","n","v","e","s","t","m","e","n","t">>,
     <<"p","r","o","f","i","t">>,
     <<"e","a","r","n">> >>

DATA_THEFT_KEYWORDS ==
  << <<"v","e","r","i","f","y">>,
     <<"c","o","n","f","i","r","m">>,
     <<"u","p","d","a","t","e">>,
     <<"s","e","c","u","r","i","t","y">>,
     <<"p","a","s","s","w","o","r","d">>,
     <<"a","c","c","o","u","n","t">>,
     <<"l","o","g","i","n">>,
     <<"c","r","e","d","e","n","t","i","a","l","s">>,
     <<"p","e","r","s","o","n","a","l">>,
     <<"i","n","f","o","r","m","a","t","i","o","n">>,
     <<"d","e","t","a","i","l","s">>,
     <<"s","s","n">>,
     <<"s","o","c","i","a","l"," ","s","e","c","u","r","i","t","y">>,
     <<"c","a","r","d"," ","n","u","m","b","e","r">>,
     <<"c","v","v">>,
     <<"p","i","n">>,
     <<"i","d","e","n","t","i","t","y">>,
     <<"v","e","r","i","f","i","c","a","t","i","o","n">> >>

PANIC_KEYWORDS ==
  << <<"u","r","g","e","n","t">>,
     <<"i","m","m","e","d","i","a","t","e","l","y">>,
     <<"s","u","s","p","e","n","d">>,
     <<"s","u","s","p","e","n","d","e","d">>,
     <<"b","l","o","c","k","e","d">>,
     <<"l","o","c","k","e","d">>,
     <<"c","o","m","p","r","o","m","i","s","e","d">>,
     <<"u","n","a","u","t","h","o","r","i","z","e","d">>,
     <<"f","r","a","u","d">>,
     <<"f","r","a","u","d","u","l","e","n","t">>,
     <<"a","l","e","r","t">>,
     <<"w","a","r","n","i","n","g">>,
     <<"e","x","p","i","r","e","s">>,
     <<"e","x","p","i","r","e","d">>,
     <<"d","e","a","d","l","i","n","e">>,
     <<"l","a","s","t"," ","c","h","a","n","c","e">>,
     <<"a","c","t"," ","n","o","w">>,
     <<"e","m","e","r","g","e","n","c","y">> >>

MALWARE_KEYWORDS ==
  << <<"c","l","i","c","k">>,
     <<"d","o","w","n","l","o","a","d">>,
     <<"i","n","s","t","a","l","l">>,
     <<"u","p","d","a","t","e">>,
     <<"s","o","f","t","w","a","r","e">>,
     <<"a","n","t","i","v","i","r","u","s">>,
     <<"s","e","c","u","r","i","t","y"," ","u","p","d","a","t","e">>,
     <<"p","a","t","c","h">>,
     <<"l","i","n","k">>,
     <<"a","t","t","a","c","h","m","e","n","t">>,
     <<"f","i","l","e">> >>

\* the top-level domains of URL_PATTERN's third alternative
URL_TLDS ==
  { <<"c","o","m">>, <<"n","e","t">>, <<"o","r","g">>, <<"x","y","z">>,
    <<"i","n","f","o">>, <<"b","i","z">>, <<"r","u">>, <<"t","k">>,
    <<"c","l","i","c","k">> }

\* the synthetic markers appended to suspicious_words when a URL is found
HTTP_MARKER == <<"h","t","t","p">>
WWW_MARKER == <<"w","w","w">>

---------------------------------------------------------------------------
(* String primitives *)

\* s[i..] starts with w
StartsAt(w, s, i) ==
  /\ i >= 1
  /\ i + Len(w) - 1 <= Len(s)
  /\ \A j \in 1..Len(w) : s[i + j - 1] = w[j]

\* Python's  w in s  for strings
Contains(w, s) ==
  LET n == Len(w)
  IN \E i \in 0..(Len(s) - n) : \A j \in 1..n : s[i + j] = w[j]

\* Python's  x in xs  for lists
In(x, xs) == \E k \in DOMAIN xs : xs[k] = x

\* the last position of the run of word characters that starts at i
WordEnd(s, i) ==
  CHOOSE j \in i..Len(s) :
    /\ \A k \in i..j : s[k] \in WordChars
    /\ j = Len(s) \/ s[j + 1] \notin WordChars

\* re.findall(r"\b\w+\b", s), scanning from position i
RECURSIVE findall_words(_, _)
findall_words(s, i) ==
  IF i > Len(s) THEN <<>>
  ELSE IF s[i] \notin WordChars THEN findall_words(s, i + 1)
  ELSE LET j == WordEnd(s, i)
       IN <<SubSeq(s, i, j)>> \o findall_words(s, j + 1)

\* s.split(): the whitespace-separated fields of s, scanning from position i
RECURSIVE split_fields(_, _)
split_fields(s, i) ==
  IF i > Len(s) THEN <<>>
  ELSE IF s[i] \in Whitespace THEN split_fields(s, i + 1)
  ELSE LET j == CHOOSE j \in i..Len(s) :
                  /\ \A k \in i..j : s[k] \notin Whitespace
                  /\ j = Len(s) \/ s[j + 1] \in Whitespace
       IN <<SubSeq(s, i, j)>> \o split_fields(s, j + 1)

words_by_split(msg_lower) == split_fields(msg_lower, 1)

\* words_in_msg = re.findall(r"\b\w+\b", msg_lower)
words_in_msg(msg_lower) == findall_words(msg_lower, 1)

\* URL_PATTERN matches somewhere in the message (IGNORECASE):
\*   https?://[^\s]+  |  www\.[^\s]+  |  \b\w+\.(tld)[^\s]*
\* In the third alternative \b\w+ matches a run of word characters, so the
\* alternative matches exactly when some word character is followed by "."
\* and a top-level domain.
URL_PATTERN_search(message) ==
  LET m == lower(message)
      NonSpaceAt(i) == i <= Len(m) /\ m[i] \notin Whitespace
  IN \E i \in 1..Len(m) :
       \/ StartsAt(<<"h","t","t","p",":","/","/">>, m, i) /\ NonSpaceAt(i + 7)
       \/ StartsAt(<<"h","t","t","p","s",":","/","/">>, m, i) /\ NonSpaceAt(i + 8)
       \/ StartsAt(<<"w","w","w",".">>, m, i) /\ NonSpaceAt(i + 4)
       \/ /\ m[i] \in WordChars
          /\ StartsAt(<<".">>, m, i + 1)
          /\ \E tld \in URL_TLDS : StartsAt(tld, m, i + 2)

\* EXCESSIVE_SYMBOL_PATTERN.search(message): two consecutive symbol characters
EXCESSIVE_SYMBOL_PATTERN_search(message) ==
  \E i \in 1..(Len(message) - 1) :
    message[i] \in SymbolChars /\ message[i + 1] \in SymbolChars

\* words_only = re.sub(r"[^a-zA-Z ]", "", message): letters and spaces are kept
words_only(message) ==
  SelectSeq(message, LAMBDA c : c \in AsciiLower \cup AsciiUpper \cup {" "})

\* the ALL CAPS check: words_only is non-empty and
\* (number of uppercase characters) / max(len(words_only), 1) > 0.5
ExcessiveCaps(message) ==
  LET w == words_only(message)
      uppers == Cardinality({i \in DOMAIN w : isupper(w[i])})
  IN Len(w) > 0 /\ 2 * uppers > Len(w)

\* message.strip()
RECURSIVE strip(_)
strip(s) ==
  IF s = <<>> THEN s
  ELSE IF Head(s) \in Whitespace THEN strip(Tail(s))
  ELSE IF s[Len(s)] \in Whitespace THEN strip(SubSeq(s, 1, Len(s) - 1))
  ELSE s

---------------------------------------------------------------------------
(* Reasons and intent descriptors.  A reason string is modelled by its     *)
(* kind and the term formatted into it; the fixed reasons carry no term.   *)

KeywordReason(keyword) == [kind |-> "suspicious_keyword", term |-> keyword]
UrgencyReason(word) == [kind |-> "urgency_word", term |-> word]
UrlReason == [kind |-> "url", term |-> <<>>]
SymbolReason == [kind |-> "excessive_symbols", term |-> <<>>]
CapsReason == [kind |-> "excessive_caps", term |-> <<>>]
HamNote == [kind |-> "model_predicts_ham", term |-> <<>>]
LearnedFeaturesNote == [kind |-> "learned_features", term |-> <<>>]

StealMoney ==
  [icon |-> "money_bag", goal |-> "Steal Money",
   description |-> "Scammer wants you to send money or provide payment information"]
StealPersonalData ==
  [icon |-> "lock_with_key", goal |-> "Steal Personal Data",
   description |-> "Scammer is trying to harvest your login credentials or personal information"]
CreatePanic ==
  [icon |-> "screaming_face", goal |-> "Create Panic",
   description |-> "Scammer uses urgency and fear to make you act without thinking"]
InstallMalware ==
  [icon |-> "microbe", goal |-> "Install Malware",
   description |-> "Scammer wants you to click a link or download malicious software"]
DeceptiveIntent ==
  [icon |-> "target", goal |-> "Deceptive Intent",
   description |-> "Scammer is attempting to deceive or manipulate you"]

---------------------------------------------------------------------------
(* explain_message *)

\* Check 1, from the i-th spam keyword on; acc is [suspicious_words, explanations]
RECURSIVE CheckSpamKeywords(_, _, _)
CheckSpamKeywords(i, words, acc) ==
  IF i > Len(SPAM_KEYWORDS) THEN acc
  ELSE LET keyword == SPAM_KEYWORDS[i]
       IN IF In(keyword, words) /\ ~In(keyword, acc.suspicious_words)
          THEN CheckSpamKeywords(i + 1, words,
                 [suspicious_words |-> Append(acc.suspicious_words, keyword),
                  explanations |-> Append(acc.explanations, KeywordReason(keyword))])
          ELSE CheckSpamKeywords(i + 1, words, acc)

\* the urgency loop without its  word not in suspicious_words  test
UrgencyFoundAgain(word, msg_lower, suspicious_words) == Contains(word, msg_lower)

\* the condition of Check 2:  word in msg_lower and word not in suspicious_words
UrgencyFound(word, msg_lower, suspicious_words) ==
  Contains(word, msg_lower) /\ ~In(word, suspicious_words)

\* Check 2, from the i-th urgency word on
RECURSIVE CheckUrgencyWords(_, _, _)
CheckUrgencyWords(i, msg_lower, acc) ==
  IF i > Len(URGENCY_WORDS) THEN acc
  ELSE LET word == URGENCY_WORDS[i]
       IN IF UrgencyFound(word, msg_lower, acc.suspicious_words)
          THEN CheckUrgencyWords(i + 1, msg_lower,
                 [suspicious_words |-> Append(acc.suspicious_words, word),
                  explanations |-> Append(acc.explanations, UrgencyReason(word))])
          ELSE CheckUrgencyWords(i + 1, msg_lower, acc)

\* Check 3: the URL reason and the two markers
CheckUrl(message, acc) ==
  IF URL_PATTERN_search(message)
  THEN [suspicious_words |-> acc.suspicious_words \o <<HTTP_MARKER, WWW_MARKER>>,
        explanations |-> Append(acc.explanations, UrlReason)]
  ELSE acc

\* Check 4: excessive symbols
CheckSymbols(message, acc) ==
  IF EXCESSIVE_SYMBOL_PATTERN_search(message)
  THEN [acc EXCEPT !.explanations = Append(@, SymbolReason)]
  ELSE acc

\* Check 5: ALL CAPS
CheckCaps(message, acc) ==
  IF ExcessiveCaps(message)
  THEN [acc EXCEPT !.explanations = Append(@, CapsReason)]
  ELSE acc

\* list(dict.fromkeys(xs)): the first occurrence of each element, in order
RECURSIVE fromkeys(_)
fromkeys(xs) ==
  IF xs = <<>> THEN <<>>
  ELSE LET init == SubSeq(xs, 1, Len(xs) - 1)
           last == xs[Len(xs)]
       IN IF In(last, init) THEN fromkeys(init) ELSE Append(fromkeys(init), last)

explain_message(message) ==
  LET msg_lower == lower(message)
      a0 == [suspicious_words |-> <<>>, explanations |-> <<>>]
      a1 == CheckSpamKeywords(1, words_in_msg(msg_lower), a0)
      a2 == CheckUrgencyWords(1, msg_lower, a1)
      a3 == CheckUrl(message, a2)
      a4 == CheckSymbols(message, a3)
      a5 == CheckCaps(message, a4)
  IN [suspicious_words |-> fromkeys(a5.suspicious_words),
      explanations |-> a5.explanations]

---------------------------------------------------------------------------
(* detect_scammer_intent *)

\* sum(1 for word in KEYWORDS if word in msg_lower)
CountMatches(KEYWORDS, msg_lower) ==
  Cardinality({i \in DOMAIN KEYWORDS : Contains(KEYWORDS[i], msg_lower)})

\* detect_scammer_intent without the generic descriptor's  if not intents
detect_scammer_intent_always_generic(message, prediction) ==
  IF prediction # "spam" THEN <<>>
  ELSE LET msg_lower == lower(message)
       IN (IF CountMatches(MONEY_THEFT_KEYWORDS, msg_lower) >= 2 THEN <<StealMoney>> ELSE <<>>)
          \o (IF CountMatches(DATA_THEFT_KEYWORDS, msg_lower) >= 2 THEN <<StealPersonalData>> ELSE <<>>)
          \o (IF CountMatches(PANIC_KEYWORDS, msg_lower) >= 2 THEN <<CreatePanic>> ELSE <<>>)
          \o (IF CountMatches(MALWARE_KEYWORDS, msg_lower) >= 2 /\ URL_PATTERN_search(message)
              THEN <<InstallMalware>> ELSE <<>>)
          \o <<DeceptiveIntent>>

\* detect_scammer_intent without the early return on a verdict other than spam
detect_scammer_intent_any_verdict(message, prediction) ==
  LET msg_lower == lower(message)
      specific ==
        (IF CountMatches(MONEY_THEFT_KEYWORDS, msg_lower) >= 2 THEN <<StealMoney>> ELSE <<>>)
        \o (IF CountMatches(DATA_THEFT_KEYWORDS, msg_lower) >= 2 THEN <<StealPersonalData>> ELSE <<>>)
        \o (IF CountMatches(PANIC_KEYWORDS, msg_lower) >= 2 THEN <<CreatePanic>> ELSE <<>>)
        \o (IF CountMatches(MALWARE_KEYWORDS, msg_lower) >= 2 /\ URL_PATTERN_search(message)
            THEN <<InstallMalware>> ELSE <<>>)
  IN IF specific = <<>> THEN <<DeceptiveIntent>> ELSE specific

\* detect_scammer_intent with the malware category not asking for a URL
detect_scammer_intent_no_url(message, prediction) ==
  IF prediction # "spam" THEN <<>>
  ELSE LET msg_lower == lower(message)
           specific ==
             (IF CountMatches(MONEY_THEFT_KEYWORDS, msg_lower) >= 2 THEN <<StealMoney>> ELSE <<>>)
             \o (IF CountMatches(DATA_THEFT_KEYWORDS, msg_lower) >= 2 THEN <<StealPersonalData>> ELSE <<>>)
             \o (IF CountMatches(PANIC_KEYWORDS, msg_lower) >= 2 THEN <<CreatePanic>> ELSE <<>>)
             \o (IF CountMatches(MALWARE_KEYWORDS, msg_lower) >= 2 THEN <<InstallMalware>> ELSE <<>>)
       IN IF specific = <<>> THEN <<DeceptiveIntent>> ELSE specific

\* detect_scammer_intent with a threshold of one match
detect_scammer_intent_threshold_1(message, prediction) ==
  IF prediction # "spam" THEN <<>>
  ELSE LET msg_lower == lower(message)
           specific ==
             (IF CountMatches(MONEY_THEFT_KEYWORDS, msg_lower) >= 1 THEN <<StealMoney>> ELSE <<>>)
             \o (IF CountMatches(DATA_THEFT_KEYWORDS, msg_lower) >= 1 THEN <<StealPersonalData>> ELSE <<>>)
             \o (IF CountMatches(PANIC_KEYWORDS, msg_lower) >= 1 THEN <<CreatePanic>> ELSE <<>>)
             \o (IF CountMatches(MALWARE_KEYWORDS, msg_lower) >= 1 /\ URL_PATTERN_search(message)
                 THEN <<InstallMalware>> ELSE <<>>)
       IN IF specific = <<>> THEN <<DeceptiveIntent>> ELSE specific

detect_scammer_intent(message, prediction) ==
  IF prediction # "spam" THEN <<>>
  ELSE LET msg_lower == lower(message)
           money_matches == CountMatches(MONEY_THEFT_KEYWORDS, msg_lower)
           data_matches == CountMatches(DATA_THEFT_KEYWORDS, msg_lower)
           panic_matches == CountMatches(PANIC_KEYWORDS, msg_lower)
           malware_matches == CountMatches(MALWARE_KEYWORDS, msg_lower)
           urls_present == URL_PATTERN_search(message)
           i1 == IF money_matches >= 2 THEN <<StealMoney>> ELSE <<>>
           i2 == IF data_matches >= 2 THEN Append(i1, StealPersonalData) ELSE i1
           i3 == IF panic_matches >= 2 THEN Append(i2, CreatePanic) ELSE i2
           i4 == IF malware_matches >= 2 /\ urls_present THEN Append(i3, InstallMalware) ELSE i3
       IN IF i4 = <<>> THEN <<DeceptiveIntent>> ELSE i4

---------------------------------------------------------------------------
(* The /predict route *)

\* the JSON body request.get_json() returns: None ("null"), {} ("empty_object"),
\* an object without a message key ("no_message_key") or {"message": <string>}
DataKinds == {"null", "empty_object", "no_message_key", "message"}

\* not data or "message" not in data
NoMessageProvided(data) ==
  data.kind \in {"null", "empty_object"} \/ data.kind # "message"

\* the emptiness test applied to the message as received, not stripped
IsEmptyUnstripped(data) == data.message = <<>>

\* message = data["message"].strip();  not message
IsEmptyMessage(data) == strip(data.message) = <<>>

\* the ham note appended at the end instead of inserted at index 0
AddHamNoteLast(prediction, suspicious_words, explanations) ==
  IF prediction = "ham" /\ suspicious_words # <<>>
  THEN Append(explanations, HamNote)
  ELSE explanations

\* if prediction == "ham" and suspicious_words: explanations.insert(0, ...)
AddHamNote(prediction, suspicious_words, explanations) ==
  IF prediction = "ham" /\ suspicious_words # <<>>
  THEN <<HamNote>> \o explanations
  ELSE explanations

\* the generic note left out
NoLearnedFeaturesNote(prediction, explanations) == explanations

\* if prediction == "spam" and not explanations: explanations.append(...)
AddLearnedFeaturesNote(prediction, explanations) ==
  IF prediction = "spam" /\ explanations = <<>>
  THEN Append(explanations, LearnedFeaturesNote)
  ELSE explanations

ErrorResponse(text) == [status |-> 400, body |-> [error |-> text]]

\* the JSON payload of a successful prediction
PredictionResponse(data, prediction, confidence) ==
  LET message == strip(data.message)
      e == explain_message(message)
      scammer_intent == detect_scammer_intent(message, prediction)
      explanations ==
        AddLearnedFeaturesNote(prediction,
          AddHamNote(prediction, e.suspicious_words, e.explanations))
  IN [status |-> 200,
      body |-> [prediction |-> prediction,
                confidence |-> confidence,
                suspicious_words |-> e.suspicious_words,
                explanation |-> explanations,
                scammer_intent |-> scammer_intent]]

---------------------------------------------------------------------------
(* Inputs *)

\* the longest message is MaxPieces pieces long
MaxPieces == 3

\* the fragments messages are assembled from
Pieces ==
  { <<"u","r","g","e","n","t">>,
    <<"l","y">>,
    <<" ">>,
    <<"W","I","N">>,
    <<"!">>,
    <<".","c","o","m">>,
    <<"w","w","w",".">>,
    <<"a","c","c","o","u","n","t">>,
    <<"f","r","a","u","d">>,
    <<"s","e","c","u","r","i","t","y"," ","u","p","d","a","t","e">> }

RECURSIVE Concat(_)
Concat(ps) == IF ps = <<>> THEN <<>> ELSE Head(ps) \o Concat(Tail(ps))

Messages == {Concat(ps) : ps \in UNION {[1..n -> Pieces] : n \in 0..MaxPieces}}

Requests ==
  {[kind |-> k, message |-> <<>>] : k \in DataKinds \ {"message"}}
  \cup {[kind |-> "message", message |-> m] : m \in Messages}

\* the class labels of the trained model (model.classes_)
Verdicts == {"spam", "ham"}

\* round(probability * 100, 2), in hundredths of a percent
Confidences == {9743}

NoResponse == [status |-> 0, body |-> [error |-> ""]]
NoExplanation == [suspicious_words |-> <<>>, explanations |-> <<>>]

---------------------------------------------------------------------------
(* Behaviour *)

Init ==
  /\ request \in Requests
  /\ op = "idle"
  /\ verdict = "none"
  /\ called = {}
  /\ response = NoResponse
  /\ explained = NoExplanation
  /\ intents = <<>>

\* /predict, lines 239-242
PredictNoMessage ==
  /\ op = "idle"
  /\ NoMessageProvided(request)
  /\ op' = "predict"
  /\ response' = ErrorResponse("No message provided")
  /\ UNCHANGED <<request, verdict, called, explained, intents>>

\* /predict, lines 244-247
PredictEmptyMessage ==
  /\ op = "idle"
  /\ ~NoMessageProvided(request)
  /\ IsEmptyMessage(request)
  /\ op' = "predict"
  /\ response' = ErrorResponse("Message is empty")
  /\ UNCHANGED <<request, verdict, called, explained, intents>>

\* /predict, lines 249-288; the classifier answers (prediction, confidence)
PredictMessage(prediction, confidence) ==
  /\ op = "idle"
  /\ ~NoMessageProvided(request)
  /\ ~IsEmptyMessage(request)
  /\ op' = "predict"
  /\ verdict' = prediction
  /\ called' = {"classifier", "explain_message", "detect_scammer_intent"}
  /\ response' = PredictionResponse(request, prediction, confidence)
  /\ UNCHANGED <<request, explained, intents>>

\* explain_message called on the message as it is
CallExplainMessage ==
  /\ op = "idle"
  /\ request.kind = "message"
  /\ op' = "explain_message"
  /\ explained' = explain_message(request.message)
  /\ UNCHANGED <<request, verdict, called, response, intents>>

\* detect_scammer_intent called on the message as it is, with any label
CallDetectScammerIntent(prediction) ==
  /\ op = "idle"
  /\ request.kind = "message"
  /\ op' = "detect_scammer_intent"
  /\ verdict' = prediction
  /\ intents' = detect_scammer_intent(request.message, prediction)
  /\ UNCHANGED <<request, called, response, explained>>

Next ==
  \/ PredictNoMessage
  \/ PredictEmptyMessage
  \/ \E prediction \in Verdicts, confidence \in Confidences :
       PredictMessage(prediction, confidence)
  \/ CallExplainMessage
  \/ \E prediction \in Verdicts \cup {"phishing"} :
       CallDetectScammerIntent(prediction)

Spec == Init /\ [][Next]_vars

---------------------------------------------------------------------------
(* Vocabulary of the properties *)

Range(xs) == {xs[i] : i \in DOMAIN xs}

NoDuplicates(xs) == \A i, j \in DOMAIN xs : i # j => xs[i] # xs[j]

\* kw stands in s as a whole word: not preceded and not followed by a word character
OccursAsToken(kw, s) ==
  \E i \in 1..(Len(s) - Len(kw) + 1) :
    /\ StartsAt(kw, s, i)
    /\ i = 1 \/ s[i - 1] \notin WordChars
    /\ i + Len(kw) > Len(s) \/ s[i + Len(kw)] \notin WordChars

\* the distinct terms of a keyword list that occur in the lowercased message
MatchedTerms(KEYWORDS, message) ==
  LET m == lower(message)
  IN {t \in Range(KEYWORDS) : Contains(t, m)}

MoneyQualifies(message) == Cardinality(MatchedTerms(MONEY_THEFT_KEYWORDS, message)) >= 2
DataQualifies(message) == Cardinality(MatchedTerms(DATA_THEFT_KEYWORDS, message)) >= 2
PanicQualifies(message) == Cardinality(MatchedTerms(PANIC_KEYWORDS, message)) >= 2
MalwareQualifies(message) ==
  Cardinality(MatchedTerms(MALWARE_KEYWORDS, message)) >= 2 /\ URL_PATTERN_search(message)

\* the specific descriptors a message qualifies for, in priority order
QualifyingIntents(message) ==
  (IF MoneyQualifies(message) THEN <<StealMoney>> ELSE <<>>)
  \o (IF DataQualifies(message) THEN <<StealPersonalData>> ELSE <<>>)
  \o (IF PanicQualifies(message) THEN <<CreatePanic>> ELSE <<>>)
  \o (IF MalwareQualifies(message) THEN <<InstallMalware>> ELSE <<>>)

\* every character of s is whitespace (the empty string included)
Blank(s) == \A i \in DOMAIN s : s[i] \in Whitespace

\* letters of the message, and the uppercase ones among them
LetterCount(message) ==
  Cardinality({i \in DOMAIN message : message[i] \in AsciiLower \cup AsciiUpper})
UpperCount(message) ==
  Cardinality({i \in DOMAIN message : message[i] \in AsciiUpper})

Markers == {HTTP_MARKER, WWW_MARKER}

\* /predict answered with a prediction payload
Predicted == op = "predict" /\ response.status = 200

\* explain_message has run, on ExplainArg, and returned Flagged
ExplainRan == op = "explain_message" \/ Predicted
ExplainArg == IF op = "predict" THEN strip(request.message) ELSE request.message
Flagged ==
  IF op = "predict" THEN response.body.suspicious_words ELSE explained.suspicious_words

\* detect_scammer_intent has run, on IntentArg with label verdict, and returned Intents
IntentRan == op = "detect_scammer_intent" \/ Predicted
IntentArg == IF op = "predict" THEN strip(request.message) ELSE request.message
Intents == IF op = "predict" THEN response.body.scammer_intent ELSE intents

\* no keyword, urgency, URL, symbol or CAPS rule fires on the message
NoRuleFires(message) ==
  /\ LET m == lower(message)
     IN /\ \A k \in Range(SPAM_KEYWORDS) : ~OccursAsToken(k, m)
        /\ \A w \in Range(URGENCY_WORDS) : ~Contains(w, m)
  /\ ~URL_PATTERN_search(message)
  /\ ~EXCESSIVE_SYMBOL_PATTERN_search(message)
  /\ ~ExcessiveCaps(message)

---------------------------------------------------------------------------
(* Properties *)

\* C1: the flagged terms have no duplicates and are, in this order, the spam
\* keywords that occur as tokens (in SPAM_KEYWORDS order), the urgency words
\* that occur as substrings and are not already flagged (in URGENCY_WORDS
\* order), and the markers "http", "www" when a URL is present.
C1_FlaggedTermsOrdered ==
  ExplainRan =>
    LET m == lower(ExplainArg)
        kws == SelectSeq(SPAM_KEYWORDS, LAMBDA k : OccursAsToken(k, m))
        urg == SelectSeq(URGENCY_WORDS, LAMBDA w : Contains(w, m) /\ ~In(w, kws))
        markers == IF URL_PATTERN_search(ExplainArg)
                   THEN <<HTTP_MARKER, WWW_MARKER>> ELSE <<>>
    IN /\ NoDuplicates(Flagged)
       /\ Flagged = kws \o urg \o markers

\* a term of both lists occurs as a token, so that both loops match it, and
\* is flagged together with the URL markers
C1_Witness ==
  /\ op = "explain_message"
  /\ \E i \in DOMAIN Flagged :
       /\ In(Flagged[i], SPAM_KEYWORDS)
       /\ In(Flagged[i], URGENCY_WORDS)
       /\ OccursAsToken(Flagged[i], lower(ExplainArg))
  /\ In(WWW_MARKER, Flagged)

\* C2: a spam verdict never comes with an empty explanation, and when no rule
\* fired the explanation is exactly the generic "learned features" note.
C2_SpamAlwaysExplained ==
  (Predicted /\ verdict = "spam") =>
    /\ response.body.explanation # <<>>
    /\ NoRuleFires(ExplainArg) => response.body.explanation = <<LearnedFeaturesNote>>

C2_Witness ==
  /\ Predicted
  /\ verdict = "spam"
  /\ NoRuleFires(ExplainArg)
  /\ response.body.explanation = <<LearnedFeaturesNote>>

\* C3: with a ham verdict and flagged terms, the explanation starts with the
\* disclaimer and continues with the analyzer's reasons in their order.
C3_HamNoteFirst ==
  (Predicted /\ verdict = "ham" /\ response.body.suspicious_words # <<>>) =>
    LET ex == response.body.explanation
    IN /\ ex # <<>>
       /\ ex[1] = HamNote
       /\ Tail(ex) = explain_message(ExplainArg).explanations
       /\ ~In(HamNote, Tail(ex))

C3_Witness ==
  /\ Predicted
  /\ verdict = "ham"
  /\ response.body.suspicious_words # <<>>
  /\ Len(response.body.explanation) >= 4

\* C4: for a spam verdict the intents are non-empty, hold the generic
\* descriptor iff no specific category qualified, never hold it with a
\* specific one, hold at most four specific ones and each goal at most once.
C4_FallbackIffNoSpecific ==
  (IntentRan /\ verdict = "spam") =>
    LET goals == [i \in DOMAIN Intents |-> Intents[i].goal]
        specific == {i \in DOMAIN Intents : Intents[i] # DeceptiveIntent}
    IN /\ Intents # <<>>
       /\ In(DeceptiveIntent, Intents) <=> QualifyingIntents(IntentArg) = <<>>
       /\ ~(In(DeceptiveIntent, Intents) /\ specific # {})
       /\ Cardinality(specific) <= 4
       /\ NoDuplicates(goals)
       /\ Range(Intents) \subseteq
            {StealMoney, StealPersonalData, CreatePanic, InstallMalware, DeceptiveIntent}

C4_Witness ==
  /\ IntentRan
  /\ verdict = "spam"
  /\ Len(Intents) >= 2
  /\ ~In(DeceptiveIntent, Intents)

\* C5: with a verdict other than spam the intents are empty, whatever the
\* message contains.
C5_NoIntentUnlessSpam ==
  (IntentRan /\ verdict # "spam") => Intents = <<>>

C5_Witness ==
  /\ op = "detect_scammer_intent"
  /\ verdict # "spam"
  /\ MoneyQualifies(IntentArg)
  /\ URL_PATTERN_search(IntentArg)
  /\ Intents = <<>>

\* C6: for a spam verdict the specific intents emitted are exactly the
\* categories with at least two distinct list terms in the lowercased message
\* (malware also needing a URL), in the order money, data, panic, malware.
C6_QualifyingCategoriesInOrder ==
  (IntentRan /\ verdict = "spam") =>
    SelectSeq(Intents, LAMBDA d : d # DeceptiveIntent) = QualifyingIntents(IntentArg)

\* two categories are emitted, the later one with more matches than the earlier
C6_Witness ==
  /\ IntentRan
  /\ verdict = "spam"
  /\ Intents = <<StealMoney, StealPersonalData>>
  /\ Cardinality(MatchedTerms(DATA_THEFT_KEYWORDS, IntentArg))
       > Cardinality(MatchedTerms(MONEY_THEFT_KEYWORDS, IntentArg))

\* C7, as stated: one money-theft keyword and one data-theft keyword with a
\* spam verdict give exactly the generic descriptor.
C7_OneMoneyOneDataGivesFallback ==
  (/\ IntentRan
   /\ verdict = "spam"
   /\ Cardinality(MatchedTerms(MONEY_THEFT_KEYWORDS, IntentArg)) = 1
   /\ Cardinality(MatchedTerms(DATA_THEFT_KEYWORDS, IntentArg)) = 1)
  => Intents = <<DeceptiveIntent>>

\* C7, amended: the same, provided the message holds fewer than two panic
\* keywords and does not hold both two malware keywords and a URL.
C7_OneMoneyOneDataNoOtherCategory ==
  (/\ IntentRan
   /\ verdict = "spam"
   /\ Cardinality(MatchedTerms(MONEY_THEFT_KEYWORDS, IntentArg)) = 1
   /\ Cardinality(MatchedTerms(DATA_THEFT_KEYWORDS, IntentArg)) = 1
   /\ ~PanicQualifies(IntentArg)
   /\ ~MalwareQualifies(IntentArg))
  => Intents = <<DeceptiveIntent>>

C7_Witness ==
  /\ IntentRan
  /\ verdict = "spam"
  /\ Cardinality(MatchedTerms(MONEY_THEFT_KEYWORDS, IntentArg)) = 1
  /\ Cardinality(MatchedTerms(DATA_THEFT_KEYWORDS, IntentArg)) = 1
  /\ Cardinality(MatchedTerms(PANIC_KEYWORDS, IntentArg)) = 1
  /\ Intents = <<DeceptiveIntent>>

\* C8: the CAPS reason is given iff the message has a letter and more than
\* half of its letters are uppercase, nothing but letters being counted.
C8_CapsRatioOverLetters ==
  op = "explain_message" =>
    (In(CapsReason, explained.explanations)
       <=> (LetterCount(ExplainArg) > 0
            /\ 2 * UpperCount(ExplainArg) > LetterCount(ExplainArg)))

C10_ReasonsFollowFlaggedTerms ==
  op = "explain_message" =>
    LET message == request.message
        m == lower(message)
        ex == explained.explanations
        terms == SelectSeq(explained.suspicious_words, LAMBDA t : t \notin Markers)
        reason(t) == IF In(t, SPAM_KEYWORDS) /\ OccursAsToken(t, m)
                     THEN KeywordReason(t) ELSE UrgencyReason(t)
        urlFired == URL_PATTERN_search(message)
        symbolFired == EXCESSIVE_SYMBOL_PATTERN_search(message)
        capsFired == ExcessiveCaps(message)
        fired == Cardinality({d \in {"url", "symbol", "caps"} :
                   \/ d = "url" /\ urlFired
                   \/ d = "symbol" /\ symbolFired
                   \/ d = "caps" /\ capsFired})
    IN /\ Len(ex) = Len(terms) + fired
       /\ \A i \in DOMAIN terms : ex[i] = reason(terms[i])
       /\ SubSeq(ex, Len(terms) + 1, Len(ex)) =
            (IF urlFired THEN <<UrlReason>> ELSE <<>>)
            \o (IF symbolFired THEN <<SymbolReason>> ELSE <<>>)
            \o (IF capsFired THEN <<CapsReason>> ELSE <<>>)

\* a term of both lists occurs as a token and got its one reason, and the URL
\* detector fired: the two markers are flagged and have no reason of their own
C10_Witness ==
  /\ op = "explain_message"
  /\ \E i \in DOMAIN explained.suspicious_words :
       /\ In(explained.suspicious_words[i], SPAM_KEYWORDS)
       /\ In(explained.suspicious_words[i], URGENCY_WORDS)
       /\ OccursAsToken(explained.suspicious_words[i], lower(request.message))
  /\ In(UrlReason, explained.explanations)
  /\ Len(explained.suspicious_words) > Len(explained.explanations)

====
